---------------------------- MODULE Spec2Model ----------------------------
(***************************************************************************)
(* Model of the traffic simulator: src/simulation/main.py (Carro,          *)
(* ModeloTransito, run_simulation) and src/simulation/utils.py (codec,     *)
(* persistence, validator).                                                *)
(*                                                                         *)
(* The grid and the scheduler are objects of the mesa library, which is    *)
(* not part of the sources.  They are modelled by what the calls in        *)
(* main.py ask of them: a grid whose cell holds the collection of agents   *)
(* placed on it (place_agent adds, move_agent removes from the agent's     *)
(* `pos` cell and adds to the target, is_cell_empty(c) tests one cell,     *)
(* get_neighborhood(c, moore=True, include_center=False) is the Moore      *)
(* neighbourhood cut at the edges), and a scheduler whose step() offers    *)
(* every agent one move in a random order.                                 *)
(*                                                                         *)
(* Line 43 of main.py calls `veiculo(i, self)` where `veiculo` is the      *)
(* local variable being assigned: as written the name is unbound and the   *)
(* constructor raises for every n_veiculos >= 1.  Spec is the program as   *)
(* written.  SpecCarro is the same program with line 43 instantiating the  *)
(* class Carro, the only agent class of the file; the operations that act  *)
(* on vehicles are examined under SpecCarro.                               *)
(*                                                                         *)
(* The other specifications take one part of the program each:             *)
(* SpecValidator the parameter validator, SpecCodec the codec on arbitrary *)
(* runs, SpecRun a caller that collects the snapshots of a model and uses  *)
(* the codec, save and load of utils.py, SpecLive run_simulation with the  *)
(* save_results of main.py, SpecCleanup cleanup_old_files on arbitrary     *)
(* directories.  SpecRun and SpecLive build their models as SpecCarro      *)
(* does.                                                                   *)
(***************************************************************************)
EXTENDS Integers, Sequences, FiniteSets, TLC

VARIABLES
    \* a ModeloTransito and the outcome of its construction
    pc, width, height, n_veiculos, grid, agents, schedule, step_count,
    now,        \* the last reading of the clock (datetime.utcnow)
    ret,        \* the value the last step() returned
    results,    \* the snapshots a run has collected
    v_args, v_ret, v_log,   \* a call of the validator: arguments, returned
                            \* values, records logged
    c_in, c_comp, c_out,    \* a run, its compressed and decompressed forms
    files,      \* the results directory: file name -> [mtime, content]
    loaded,     \* the value the last load_latest returned
    saved,      \* how the last save_simulation_results ended
    cleaned,    \* the calls of cleanup_old_files and how they went
    run_pc, steps,  \* run_simulation: its position and its argument
    saves       \* the save_results calls of the run, in order

model_vars == <<pc, width, height, n_veiculos, grid, agents, schedule,
                step_count, now, ret>>
validator_vars == <<v_args, v_ret, v_log>>
codec_vars == <<c_in, c_comp, c_out>>
store_vars == <<files, loaded, saved, cleaned>>
live_vars == <<run_pc, steps, saves>>

vars == <<model_vars, results, validator_vars, codec_vars, store_vars,
          live_vars>>

(***************************************************************************)
(* Bounds of the model.                                                    *)
(***************************************************************************)
MaxWidth == 3
MaxHeight == 2
MaxVeiculos == 2
MaxSteps == 2
MaxClock == 1
\* vehicles of a model whose snapshots are collected into a run
MaxRunVeiculos == 1
\* readings of the clock within one second of the file names
TicksPerSecond == 2
\* arguments tried on the constructor as written, which places no vehicle
MaxCtorArg == 4

\* np.random.randint(1, 5): the speeds 1..4
SpeedLow == 1
SpeedHigh == 5

\* grids of at least two cells, as every grid the validator admits: each
\* cell has a neighbour
Widths == 2..MaxWidth
Heights == 1..MaxHeight
VehicleCounts == 0..MaxVeiculos
CtorArgs == 1..MaxCtorArg
Speeds == SpeedLow..(SpeedHigh - 1)

NoPos == <<>>

(***************************************************************************)
(* The grid.                                                               *)
(***************************************************************************)
Cells(w, h) == (0..(w - 1)) \X (0..(h - 1))

\* NetworkGrid(grid_2d_graph(width, height)): every cell starts empty
NetworkGrid(w, h) == [c \in Cells(w, h) |-> {}]

Abs(i) == IF i < 0 THEN -i ELSE i

get_neighborhood(g, c) ==
    {d \in DOMAIN g : /\ d # c
                      /\ Abs(d[1] - c[1]) <= 1
                      /\ Abs(d[2] - c[2]) <= 1}

\* is_cell_empty answering yes for every cell
is_cell_empty_always(g, c) == TRUE

is_cell_empty(g, c) == g[c] = {}

\* the grid with agent a added to cell c
place_agent(g, a, c) == [g EXCEPT ![c] = @ \cup {a}]

\* the grid with agent a taken from the cell its `pos` names
remove_agent(g, a, pos) == [g EXCEPT ![pos] = @ \ {a}]

move_agent(g, a, pos, c) == place_agent(remove_agent(g, a, pos), a, c)

\* coord_iter(): the cells of the grid
coord_iter(g) == DOMAIN g

(***************************************************************************)
(* Carro                                                                   *)
(***************************************************************************)
\* Carro.__init__: posicao = (0, 0), speed = 0; Agent.pos is unset
Carro(unique_id) ==
    [unique_id |-> unique_id, posicao |-> <<0, 0>>, speed |-> 0, pos |-> NoPos]

\* Carro.move without the draw of a new speed
move_keeps_speed(m, a, nova_posicao, s) ==
    IF is_cell_empty(m.grid, nova_posicao)
    THEN [grid   |-> move_agent(m.grid, a, m.agents[a].pos, nova_posicao),
          agents |-> [m.agents EXCEPT ![a].pos = nova_posicao,
                                      ![a].posicao = nova_posicao]]
    ELSE m

\* Carro.move with the two random draws made explicit: nova_posicao is the
\* cell random.choice returned, s the value of np.random.randint(1, 5).
\* m = [grid, agents]
move(m, a, nova_posicao, s) ==
    IF is_cell_empty(m.grid, nova_posicao)
    THEN [grid   |-> move_agent(m.grid, a, m.agents[a].pos, nova_posicao),
          agents |-> [m.agents EXCEPT ![a].pos = nova_posicao,
                                      ![a].posicao = nova_posicao,
                                      ![a].speed = s]]
    ELSE m

\* every outcome of one call of move by agent a
move_outcomes(m, a) ==
    {move(m, a, c, s) :
        c \in get_neighborhood(m.grid, m.agents[a].posicao), s \in Speeds}

(***************************************************************************)
(* RandomActivation.step: every agent of the schedule is activated once,   *)
(* in a random order.                                                      *)
(***************************************************************************)
Orders(sched) ==
    {o \in [1..Len(sched) -> 1..Len(sched)] :
        \A i, j \in 1..Len(sched) : i # j => o[i] # o[j]}

RECURSIVE activate(_, _, _, _)
\* the states after activating agents sched[order[k]], ..., in turn
activate(ms, sched, order, k) ==
    IF k > Len(sched) THEN ms
    ELSE activate(UNION {move_outcomes(m, sched[order[k]]) : m \in ms},
                  sched, order, k + 1)

schedule_step(m, sched) ==
    UNION {activate({m}, sched, o, 1) : o \in Orders(sched)}

(***************************************************************************)
(* ModeloTransito                                                          *)
(***************************************************************************)
RECURSIVE place_all(_, _, _, _)
\* the loop of __init__ from iteration i on: vehicle i is created, placed on
\* starts[i] and added to the schedule
place_all(st, starts, i, n) ==
    IF i >= n THEN st
    ELSE place_all(
           [grid     |-> place_agent(st.grid, i, starts[i]),
            agents   |-> [j \in DOMAIN st.agents \cup {i} |->
                            IF j = i THEN [Carro(i) EXCEPT !.pos = starts[i]]
                                     ELSE st.agents[j]],
            schedule |-> Append(st.schedule, i)],
           starts, i + 1, n)

\* calcular_congestionamento: `self.grid.is_cell_empty` is the bound method,
\* not a call; a method object is true, so no cell is ever counted.
is_cell_empty_attr == TRUE

occupied_count(g) == Cardinality({c \in coord_iter(g) : ~ is_cell_empty_attr})

\* the quotient occupied / total_cells as the pair <<occupied, total_cells>>
calcular_congestionamento(g, w, h) == <<occupied_count(g), w * h>>

\* get_state reporting the counter as it was before the tick
get_state_stale(t, cnt, g, ags, sched, w, h) ==
    [timestamp        |-> t,
     step             |-> cnt - 1,
     veiculos         |-> [k \in 1..Len(sched) |->
                             [id    |-> ags[sched[k]].unique_id,
                              x     |-> ags[sched[k]].pos[1],
                              y     |-> ags[sched[k]].pos[2],
                              speed |-> ags[sched[k]].speed]],
     congestionamento |-> <<0, w * h>>,
     metadata         |-> [width |-> w, height |-> h,
                           veiculo_count |-> Len(sched)]]

get_state(t, cnt, g, ags, sched, w, h) ==
    [timestamp        |-> t,
     step             |-> cnt,
     veiculos         |-> [k \in 1..Len(sched) |->
                             [id    |-> ags[sched[k]].unique_id,
                              x     |-> ags[sched[k]].pos[1],
                              y     |-> ags[sched[k]].pos[2],
                              speed |-> ags[sched[k]].speed]],
     congestionamento |-> calcular_congestionamento(g, w, h),
     metadata         |-> [width |-> w, height |-> h,
                           veiculo_count |-> Len(sched)]]

\* lines 36-40 of __init__, then the loop
init_fields(w, h, n) ==
    /\ width' = w
    /\ height' = h
    /\ n_veiculos' = n
    /\ step_count' = 0
    /\ UNCHANGED <<now, ret>>

\* what a call of the constructor leaves alone
init_frame ==
    UNCHANGED <<results, validator_vars, codec_vars, store_vars, live_vars>>

\* ModeloTransito.__init__ as written: line 43 reads the unbound local
\* `veiculo` in the first iteration and raises
ModeloTransito_init ==
    /\ pc = "new"
    /\ \E w \in CtorArgs, h \in CtorArgs, n \in {0} \cup CtorArgs :
         /\ init_fields(w, h, n)
         /\ grid' = NetworkGrid(w, h)
         /\ agents' = <<>>
         /\ schedule' = <<>>
         /\ pc' = IF n >= 1 THEN "error" ELSE "ready"
    /\ init_frame

\* ModeloTransito.__init__ with line 43 instantiating Carro, for a number of
\* vehicles among counts: the fields of the model it builds
init_Carro(counts) ==
    /\ pc = "new"
    /\ \E w \in Widths, h \in Heights, n \in counts :
         \E starts \in [0..(n - 1) -> Cells(w, h)] :
           LET st == place_all([grid |-> NetworkGrid(w, h), agents |-> <<>>,
                                schedule |-> <<>>], starts, 0, n)
           IN /\ init_fields(w, h, n)
              /\ grid' = st.grid
              /\ agents' = st.agents
              /\ schedule' = st.schedule
              /\ pc' = "ready"

construct_Carro(counts) == init_Carro(counts) /\ init_frame

ModeloTransito_init_Carro == construct_Carro(VehicleCounts)

\* ModeloTransito.step, without the frame of the other components, for a
\* model of fewer than max_steps ticks and a clock that reads up to max_clock
step_bounded(max_steps, max_clock) ==
    /\ pc = "ready"
    /\ step_count < max_steps
    /\ \E m \in schedule_step([grid |-> grid, agents |-> agents], schedule) :
         \E t \in now..max_clock :
           /\ grid' = m.grid
           /\ agents' = m.agents
           /\ step_count' = step_count + 1
           /\ now' = t
           /\ ret' = <<get_state(t, step_count + 1, m.grid, m.agents,
                                  schedule, width, height)>>
    /\ UNCHANGED <<pc, width, height, n_veiculos, schedule>>

step_call == step_bounded(MaxSteps, MaxClock)

\* ModeloTransito.step
step ==
    /\ step_call
    /\ UNCHANGED <<results, validator_vars, codec_vars, store_vars,
                   live_vars>>

ModelInit ==
    /\ pc = "new"
    /\ width = 0
    /\ height = 0
    /\ n_veiculos = 0
    /\ grid = <<>>
    /\ agents = <<>>
    /\ schedule = <<>>
    /\ step_count = 0
    /\ now = 0
    /\ ret = <<>>
    /\ results = <<>>

ValidatorIdle == v_args = <<>> /\ v_ret = <<>> /\ v_log = <<>>
CodecIdle == c_in = <<>> /\ c_comp = <<>> /\ c_out = <<>>
StoreInit == files = <<>> /\ loaded = <<>> /\ saved = <<>> /\ cleaned = <<>>
LiveIdle == run_pc = "idle" /\ steps = 0 /\ saves = <<>>

Init == ModelInit /\ ValidatorIdle /\ CodecIdle /\ StoreInit /\ LiveIdle

Next == ModeloTransito_init \/ step

Spec == Init /\ [][Next]_vars

NextCarro == ModeloTransito_init_Carro \/ step

SpecCarro == Init /\ [][NextCarro]_vars

(***************************************************************************)
(* validate_simulation_parameters (utils.py)                               *)
(***************************************************************************)
WidthMin == 5
WidthMax == 100
HeightMin == 5
HeightMax == 100
VeiculosMin == 1
VeiculosMax == 1000

\* the arguments tried: each limit and its neighbour outside
ValidatorWidths == {WidthMin - 1, WidthMin, WidthMax, WidthMax + 1}
ValidatorHeights == {HeightMin - 1, HeightMin, HeightMax, HeightMax + 1}
ValidatorCounts ==
    {VeiculosMin - 1, VeiculosMin,
     WidthMin * HeightMin, WidthMin * HeightMin + 1,
     VeiculosMax, VeiculosMax + 1,
     WidthMax * HeightMax, WidthMax * HeightMax + 1}

\* the list `errors` where only the first failing test appends
validation_errors_first(w, h, n) ==
    IF ~ (WidthMin <= w /\ w <= WidthMax)
    THEN <<"Width tem que ser entre 5 and 100">>
    ELSE IF ~ (HeightMin <= h /\ h <= HeightMax)
    THEN <<"Height tem que ser entre 5 and 100">>
    ELSE IF ~ (VeiculosMin <= n /\ n <= VeiculosMax)
    THEN <<"veiculo tem que ser entre 1 and 1000">>
    ELSE IF n > w * h THEN <<"muitos veiculos para o grid">>
    ELSE <<>>

\* the list `errors` after the four tests
validation_errors(w, h, n) ==
    (IF ~ (WidthMin <= w /\ w <= WidthMax)
     THEN <<"Width tem que ser entre 5 and 100">> ELSE <<>>)
    \o (IF ~ (HeightMin <= h /\ h <= HeightMax)
        THEN <<"Height tem que ser entre 5 and 100">> ELSE <<>>)
    \o (IF ~ (VeiculosMin <= n /\ n <= VeiculosMax)
        THEN <<"veiculo tem que ser entre 1 and 1000">> ELSE <<>>)
    \o (IF n > w * h THEN <<"muitos veiculos para o grid">> ELSE <<>>)

\* the call: the values it returns (one, a boolean) and the records it logs
\* (one warning carrying the reasons joined by "; ", when there are any)
validate_simulation_parameters(w, h, n) ==
    LET errors == validation_errors(w, h, n)
    IN IF errors # <<>>
       THEN [returned |-> <<FALSE>>,
             logged   |-> <<[level |-> "warning", reasons |-> errors]>>]
       ELSE [returned |-> <<TRUE>>, logged |-> <<>>]

validate_call ==
    /\ v_args # <<>>
    /\ v_ret = <<>>
    /\ LET r == validate_simulation_parameters(v_args[1], v_args[2], v_args[3])
       IN /\ v_ret' = r.returned
          /\ v_log' = r.logged
    /\ UNCHANGED <<v_args, model_vars, results, codec_vars, store_vars,
                   live_vars>>

InitValidator ==
    /\ ModelInit /\ CodecIdle /\ StoreInit /\ LiveIdle
    /\ v_args \in ValidatorWidths \X ValidatorHeights \X ValidatorCounts
    /\ v_ret = <<>>
    /\ v_log = <<>>

NextValidator == validate_call

SpecValidator == InitValidator /\ [][NextValidator]_vars

(***************************************************************************)
(* compress_simulation_data, decomp_simulation_data (utils.py)             *)
(*                                                                         *)
(* A dict is a function on its keys; {} is the function on no key.  A      *)
(* float quotient a/b is the pair <<a, b>>.                                *)
(***************************************************************************)
EmptyDict == <<>>

\* d.get(k, default)
dict_get(d, k, default) == IF k \in DOMAIN d THEN d[k] ELSE default

\* round(q, 3): the nearest multiple of 1/1000, a tie going to the even one,
\* as the pair <<thousandths, 1000>>
round3(q) ==
    LET n == 1000 * q[1]
        lo == n \div q[2]
        twice == 2 * (n - lo * q[2])
    IN <<IF twice > q[2] \/ (twice = q[2] /\ lo % 2 = 1) THEN lo + 1 ELSE lo,
         1000>>

\* comp_veiculo with the speed taken from the wrong field
comp_veiculo_swapped(veiculo) ==
    [id |-> veiculo.id, x |-> veiculo.x, y |-> veiculo.y, s |-> veiculo.x]

comp_veiculo(veiculo) ==
    [id |-> veiculo.id, x |-> veiculo.x, y |-> veiculo.y, s |-> veiculo.speed]

\* the dict comp_step built for one snapshot (before the metadata key)
comp_step(snap) ==
    [step             |-> snap.step,
     timestamp        |-> snap.timestamp,
     congestionamento |-> round3(snap.congestionamento),
     veiculos         |-> [k \in 1..Len(snap.veiculos) |->
                              comp_veiculo(snap.veiculos[k])]]

compress_simulation_data(rs) ==
    IF rs = <<>> THEN <<>>
    ELSE LET metadata == dict_get(rs[1], "metadata", EmptyDict)
         IN [i \in 1..Len(rs) |->
                IF i = 1 THEN comp_step(rs[i]) @@ [metadata |-> metadata]
                         ELSE comp_step(rs[i])]

decomp_veiculo(cv) ==
    [id |-> cv.id, x |-> cv.x, y |-> cv.y, speed |-> cv.s]

decomp_simulation_data(comp_results) ==
    IF comp_results = <<>> THEN <<>>
    ELSE LET metadata == dict_get(comp_results[1], "metadata", EmptyDict)
         IN [i \in 1..Len(comp_results) |->
               LET cs == comp_results[i]
               IN [step             |-> cs.step,
                   timestamp        |-> cs.timestamp,
                   congestionamento |-> cs.congestionamento,
                   veiculos         |-> [k \in 1..Len(cs.veiculos) |->
                                            decomp_veiculo(cs.veiculos[k])],
                   metadata         |-> IF cs.step = 0 THEN metadata
                                                       ELSE EmptyDict]]

\* a call of compress_simulation_data on the run rs
compress_call(rs) ==
    /\ c_in' = <<rs>>
    /\ c_comp' = <<compress_simulation_data(rs)>>
    /\ c_out' = <<>>

\* a call of decomp_simulation_data on the last compressed run
decomp_call ==
    /\ c_comp # <<>>
    /\ c_out = <<>>
    /\ c_out' = <<decomp_simulation_data(c_comp[1])>>
    /\ UNCHANGED <<c_in, c_comp>>

\* the runs tried on the codec: snapshots of any step, timestamp, vehicle
\* list, congestion and metadata
MaxRunLen == 2

CodecVeiculoA == [id |-> 0, x |-> 2, y |-> 1, speed |-> 4]
CodecVeiculoB == [id |-> 1, x |-> 0, y |-> 0, speed |-> 0]
CodecVeiculoLists ==
    {<<>>, <<CodecVeiculoA, CodecVeiculoB>>, <<CodecVeiculoB, CodecVeiculoA>>}
CodecCongestions == {<<0, 6>>, <<1, 3>>, <<1, 16>>}
CodecMetadata == {[width |-> 3, height |-> 2, veiculo_count |-> 2]}
CodecSnapshots ==
    [timestamp : {0, 1}, step : {0, 1, 2}, veiculos : CodecVeiculoLists,
     congestionamento : CodecCongestions, metadata : CodecMetadata]
CodecRuns ==
    UNION {[1..k -> CodecSnapshots] : k \in 0..MaxRunLen}

codec_compress ==
    /\ c_comp = <<>>
    /\ compress_call(c_in[1])
    /\ UNCHANGED <<model_vars, results, validator_vars, store_vars,
                   live_vars>>

codec_decomp ==
    /\ decomp_call
    /\ UNCHANGED <<model_vars, results, validator_vars, store_vars,
                   live_vars>>

InitCodec ==
    /\ ModelInit /\ ValidatorIdle /\ StoreInit /\ LiveIdle
    /\ c_in \in {<<r>> : r \in CodecRuns}
    /\ c_comp = <<>>
    /\ c_out = <<>>

NextCodec == codec_compress \/ codec_decomp

SpecCodec == InitCodec /\ [][NextCodec]_vars

(***************************************************************************)
(* save_simulation_results, load_latest_simulation_results (utils.py) and  *)
(* a caller that collects the snapshots of a model into a run              *)
(***************************************************************************)
\* generate_timestamp_filename: strftime("%Y%m%d_%H%M%S") keeps the second of
\* the reading t of the clock; the name is identified with that second
generate_timestamp_filename(t) == t \div TicksPerSecond

\* json.dump / json.load of a value made of dicts with string keys, lists,
\* ints, strings and floats: the document determines the value, which
\* json.load gives back
json_dump(v) == [document |-> v]
json_load(text) == text.document

\* what a json.dump that raised part-way left in the file: a proper prefix
\* of the document (an array that is never closed), which json.load rejects
json_dump_torn(v) == [torn |-> v]
is_json(text) == "document" \in DOMAIN text

\* the exception class utils.py imports from .exceptions
SimulationError == "SimulationError"

\* the directory after a file is written (created or truncated) at time t
write_file(dir, name, t, text) ==
    [f \in DOMAIN dir \cup {name} |->
        IF f = name THEN [mtime |-> t, content |-> text] ELSE dir[f]]

\* open(path, "w") and json.dump(v, f) at time t: the directory they leave
\* and whether they completed.  open may raise, leaving the directory as it
\* was; once it has returned the file exists and is empty, and json.dump
\* either completes or raises with part of the document written.
open_and_dump(dir, name, t, v) ==
    {[dir |-> write_file(dir, name, t, json_dump(v)), ok |-> TRUE],
     [dir |-> dir, ok |-> FALSE],
     [dir |-> write_file(dir, name, t, json_dump_torn(v)), ok |-> FALSE]}

\* save_simulation_results(rs, results_dir): returns the path written, or
\* logs and raises SimulationError when the open or the dump raised
save_simulation_results(rs) ==
    \E t \in now..MaxClock :
      LET filename == generate_timestamp_filename(t)
      IN \E o \in open_and_dump(files, filename, t,
                                compress_simulation_data(rs)) :
           /\ now' = t
           /\ files' = o.dir
           /\ saved' = IF o.ok
                       THEN <<[returned |-> <<filename>>, raised |-> <<>>]>>
                       ELSE <<[returned |-> <<>>,
                               raised |-> <<SimulationError>>]>>

\* max(json_files, key=st_mtime): a file no other file is newer than
latest_files(dir) ==
    {f \in DOMAIN dir : \A g \in DOMAIN dir : dir[g].mtime <= dir[f].mtime}

\* load_latest_simulation_results(results_dir): None, with a warning logged,
\* for a directory without result files; else the content of the latest
\* file as json.load returns it; None again, with an error logged, when
\* json.load raises.  `except Exception` lets no exception out.
load_latest_simulation_results ==
    IF DOMAIN files = {}
    THEN loaded' = <<[none |-> TRUE, raised |-> <<>>, logged |-> "warning"]>>
    ELSE \E f \in latest_files(files) :
           loaded' = IF is_json(files[f].content)
                     THEN <<[none |-> FALSE,
                             value |-> json_load(files[f].content),
                             raised |-> <<>>, logged |-> "info"]>>
                     ELSE <<[none |-> TRUE, raised |-> <<>>,
                             logged |-> "error"]>>

\* the caller of step() appends the snapshot to its run (as run_simulation,
\* main.py:82-83)
collect_step ==
    /\ step_call
    /\ results' = Append(results, ret'[1])
    /\ UNCHANGED <<validator_vars, codec_vars, store_vars,
                   live_vars>>

run_construct == construct_Carro(0..MaxRunVeiculos)

run_compress ==
    /\ pc = "ready"
    /\ c_in # <<results>>
    /\ compress_call(results)
    /\ UNCHANGED <<model_vars, results, validator_vars, store_vars,
                   live_vars>>

run_decomp ==
    /\ decomp_call
    /\ UNCHANGED <<model_vars, results, validator_vars, store_vars,
                   live_vars>>

run_save ==
    /\ pc = "ready"
    /\ save_simulation_results(results)
    /\ UNCHANGED <<pc, width, height, n_veiculos, grid, agents, schedule,
                   step_count, ret, results, validator_vars, codec_vars,
                   loaded, cleaned, live_vars>>

run_load ==
    /\ load_latest_simulation_results
    /\ UNCHANGED <<model_vars, results, validator_vars, codec_vars, files,
                   saved, cleaned, live_vars>>

NextRun ==
    \/ run_construct
    \/ collect_step
    \/ run_compress
    \/ run_decomp
    \/ run_save
    \/ run_load

SpecRun == Init /\ [][NextRun]_vars

(***************************************************************************)
(* run_simulation and save_results (main.py)                               *)
(*                                                                         *)
(* run_simulation is followed line by line: run_pc is "loop" at the head   *)
(* of the for loop, "save" when the test of line 85 has succeeded, "done"  *)
(* after the return and "raised" when save_results let an exception out.   *)
(* The model it builds is drawn from the small models, and a run with      *)
(* vehicles is short; the constructor is the one of SpecCarro.             *)
(***************************************************************************)
\* the ticks of a run without vehicles; a run with vehicles has MaxSteps
MaxLiveSteps == 11
\* the clock of a run reads up to MaxLiveClock: two seconds of file names
MaxLiveClock == 3

\* line 85: len(results) % 10
SavePeriod == 10

\* save_results(results) of main.py called at position `at`: the file name
\* comes from the clock, the run is dumped as it is, and an exception of
\* open or json.dump leaves the function
save_results(rs, at) ==
    \E t \in now..MaxLiveClock :
      LET output_file == generate_timestamp_filename(t)
      IN \E o \in open_and_dump(files, output_file, t, rs) :
           /\ now' = t
           /\ files' = o.dir
           /\ saves' = Append(saves, [at |-> at, tick |-> Len(rs),
                                      file |-> output_file, ok |-> o.ok])
           /\ run_pc' = IF ~ o.ok THEN "raised"
                        ELSE IF at = "end" THEN "done" ELSE "loop"

\* lines 78-79: model = ModeloTransito(); results = []
run_simulation_begin ==
    /\ run_pc = "idle"
    /\ init_Carro(0..MaxRunVeiculos)
    /\ steps' \in 0..(IF n_veiculos' = 0 THEN MaxLiveSteps ELSE MaxSteps)
    /\ results' = <<>>
    /\ run_pc' = "loop"
    /\ UNCHANGED <<saves, validator_vars, codec_vars, store_vars>>

\* the loop body without the test of line 85: no save inside the loop
run_simulation_tick_no_save ==
    /\ run_pc = "loop"
    /\ Len(results) < steps
    /\ step_bounded(steps, MaxLiveClock)
    /\ results' = Append(results, ret'[1])
    /\ run_pc' = "loop"
    /\ UNCHANGED <<steps, saves, validator_vars, codec_vars, store_vars>>

\* lines 81-85: one iteration of the loop up to the test of line 85
run_simulation_tick ==
    /\ run_pc = "loop"
    /\ Len(results) < steps
    /\ step_bounded(steps, MaxLiveClock)
    /\ results' = Append(results, ret'[1])
    /\ run_pc' = IF Len(results') % SavePeriod = 0 THEN "save" ELSE "loop"
    /\ UNCHANGED <<steps, saves, validator_vars, codec_vars, store_vars>>

\* line 86: the save inside the loop
run_simulation_save ==
    /\ run_pc = "save"
    /\ save_results(results, "loop")
    /\ UNCHANGED <<pc, width, height, n_veiculos, grid, agents, schedule,
                   step_count, ret, results, steps, validator_vars,
                   codec_vars, loaded, saved, cleaned>>

\* lines 88-89: the save after the loop and the return
run_simulation_end ==
    /\ run_pc = "loop"
    /\ Len(results) = steps
    /\ save_results(results, "end")
    /\ UNCHANGED <<pc, width, height, n_veiculos, grid, agents, schedule,
                   step_count, ret, results, steps, validator_vars,
                   codec_vars, loaded, saved, cleaned>>

NextLive ==
    \/ run_simulation_begin
    \/ run_simulation_tick
    \/ run_simulation_save
    \/ run_simulation_end

SpecLive == Init /\ [][NextLive]_vars

(***************************************************************************)
(* cleanup_old_files (utils.py)                                            *)
(*                                                                         *)
(* Times are readings of the clock in ticks.  A call is given the files    *)
(* whose unlink raises during it (the environment of the call).            *)
(***************************************************************************)
\* files of a directory, limits and undeletable files tried
MaxCleanupFiles == 3
MaxAgeDays == 2
MaxFailing == 1
MaxCleanups == 2

\* line 195: max_age_days * 24 * 3600
HoursPerDay == 24
SecondsPerHour == 3600
DayTicks == HoursPerDay * SecondsPerHour * TicksPerSecond

cutoff_time(t, max_age_days) == t - max_age_days * DayTicks

\* the lists of the files of dir without repetition
file_lists(dir) ==
    {q \in [1..Cardinality(DOMAIN dir) -> DOMAIN dir] :
        \A i, j \in 1..Cardinality(DOMAIN dir) : i # j => q[i] # q[j]}

\* sort(key=st_mtime) without reverse=True: oldest first
json_files_oldest_first(dir) ==
    {q \in file_lists(dir) :
        \A i \in 1..(Len(q) - 1) : dir[q[i]].mtime <= dir[q[i + 1]].mtime}

\* lines 188-189: the glob, sorted by st_mtime, newest first; files of equal
\* st_mtime keep the order of the glob, which is any order
json_files_sorted(dir) ==
    {q \in file_lists(dir) :
        \A i \in 1..(Len(q) - 1) : dir[q[i]].mtime >= dir[q[i + 1]].mtime}

\* file.unlink() succeeding
unlink(dir, f) == [g \in DOMAIN dir \ {f} |-> dir[g]]

\* a slice that starts at the last file whatever max_files is
excess_start_last(q, max_files) == IF Len(q) = 0 THEN 1 ELSE Len(q)

\* json_files[max_files:]: the index of its first file, for max_files >= 0
excess_start(q, max_files) == max_files + 1

RECURSIVE remove_excess(_, _, _, _)
\* lines 191-193 from the file q[i] on: the directory left and the file
\* whose unlink raised, which ends the loop
remove_excess(dir, q, i, fails) ==
    IF i > Len(q) THEN [dir |-> dir, failed |-> <<>>, aborted |-> FALSE]
    ELSE IF q[i] \in fails
    THEN [dir |-> dir, failed |-> <<q[i]>>, aborted |-> TRUE]
    ELSE remove_excess(unlink(dir, q[i]), q, i + 1, fails)

RECURSIVE remove_aged(_, _, _, _, _)
\* lines 196-199 from the file q[i] on.  The list is the one of line 188:
\* file.stat() raises for a file the first loop removed.
remove_aged(dir, q, i, cutoff, fails) ==
    IF i > Len(q) THEN [dir |-> dir, failed |-> <<>>, aborted |-> FALSE]
    ELSE IF q[i] \notin DOMAIN dir
    THEN [dir |-> dir, failed |-> <<>>, aborted |-> TRUE]
    ELSE IF dir[q[i]].mtime < cutoff
    THEN IF q[i] \in fails
         THEN [dir |-> dir, failed |-> <<q[i]>>, aborted |-> TRUE]
         ELSE remove_aged(unlink(dir, q[i]), q, i + 1, cutoff, fails)
    ELSE remove_aged(dir, q, i + 1, cutoff, fails)

\* cleanup_old_files(results_dir, max_files, max_age_days) with the sorted
\* list q, the clock reading t and the undeletable files fails.  The one
\* try block ends at the first exception, which is logged.
cleanup_old_files(dir, max_files, max_age_days, t, q, fails) ==
    LET by_count == remove_excess(dir, q, excess_start(q, max_files), fails)
    IN IF by_count.aborted THEN by_count
       ELSE remove_aged(by_count.dir, q, 1,
                        cutoff_time(t, max_age_days), fails)

\* the clock readings of the cleanup calls and the st_mtime of the files:
\* files exactly one and two days old at a call, and one tick older
CleanupTimes == {DayTicks + 1, 2 * DayTicks + 1}
CleanupMtimes == {0, 1, DayTicks, DayTicks + 1}
CleanupDirs ==
    UNION {[names -> [mtime : CleanupMtimes, content : {json_dump(<<>>)}]] :
              names \in SUBSET (1..MaxCleanupFiles)}

cleanup_call ==
    /\ Len(cleaned) < MaxCleanups
    /\ \E max_files \in 0..MaxCleanupFiles, max_age_days \in 0..MaxAgeDays,
          t \in {x \in CleanupTimes : x >= now},
          q \in json_files_sorted(files),
          fails \in {F \in SUBSET (DOMAIN files) : Cardinality(F) <= MaxFailing} :
         LET r == cleanup_old_files(files, max_files, max_age_days, t, q,
                                    fails)
         IN /\ files' = r.dir
            /\ now' = t
            /\ cleaned' = Append(cleaned,
                             [max_files |-> max_files,
                              max_age_days |-> max_age_days,
                              t |-> t, before |-> files, json_files |-> q,
                              fails |-> fails, failed |-> r.failed,
                              aborted |-> r.aborted, raised |-> <<>>])
    /\ UNCHANGED <<pc, width, height, n_veiculos, grid, agents, schedule,
                   step_count, ret, results, validator_vars, codec_vars,
                   loaded, saved, live_vars>>

InitCleanup ==
    /\ ModelInit /\ ValidatorIdle /\ CodecIdle /\ LiveIdle
    /\ files \in CleanupDirs
    /\ loaded = <<>>
    /\ saved = <<>>
    /\ cleaned = <<>>

NextCleanup == cleanup_call

SpecCleanup == InitCleanup /\ [][NextCleanup]_vars

(***************************************************************************)
(* Properties of the model (SpecCarro) and of its construction (Spec)      *)
(***************************************************************************)
Ids == DOMAIN agents

\* the cells that hold agent a
cells_of(g, a) == {c \in DOMAIN g : a \in g[c]}

\* the number of (cell, agent) placements on the grid
on_grid(g) == Cardinality({p \in (DOMAIN g) \X Ids : p[2] \in g[p[1]]})

\* the Moore neighbourhood of cell c on a w x h grid, cut at the edges
Moore(w, h, c) ==
    {d \in Cells(w, h) : d # c /\ Abs(d[1] - c[1]) <= 1 /\ Abs(d[2] - c[2]) <= 1}

C3_StepContract ==
    [][pc = "ready" =>
          /\ step_count' = step_count + 1
          /\ Len(ret') = 1
          /\ ret'[1].step = step_count'
          /\ schedule' = schedule
          /\ DOMAIN agents' = DOMAIN agents
          /\ Len(schedule') = n_veiculos
          /\ on_grid(grid') = n_veiculos
          /\ \A a \in Ids : Cardinality(cells_of(grid', a)) = 1
          /\ Len(ret'[1].veiculos) = n_veiculos
          /\ {ret'[1].veiculos[k].id : k \in 1..Len(ret'[1].veiculos)} = Ids
          /\ ret'[1].metadata.veiculo_count = n_veiculos]_vars

\* C3 witness: two ticks of a model of two vehicles, one of which has moved
C3_Witness ==
    /\ pc = "ready"
    /\ n_veiculos = 2
    /\ step_count = 2
    /\ Len(ret) = 1
    /\ ret[1].step = 2
    /\ \E a \in Ids : agents[a].speed > 0

C5_RejectedBeforeAllocation ==
    /\ (pc # "new" /\ n_veiculos > width * height) =>
          /\ pc = "error"
          /\ DOMAIN grid = {}
          /\ schedule = <<>>
          /\ Ids = {}
    /\ pc = "ready" => Len(schedule) <= width * height

\* C6: a constructor call with n_veiculos <= width*height succeeds and yields
\* exactly n_veiculos vehicles with the ids 0..n_veiculos-1, each on a cell
\* of the grid.
C6_ConstructionSucceeds ==
    (pc # "new" /\ n_veiculos <= width * height) =>
        /\ pc = "ready"
        /\ Len(schedule) = n_veiculos
        /\ Ids = 0..(n_veiculos - 1)
        /\ \A a \in Ids : /\ agents[a].unique_id = a
                          /\ agents[a].pos \in Cells(width, height)
                          /\ a \in grid[agents[a].pos]

(***************************************************************************)
(* Properties of the validator (SpecValidator)                             *)
(***************************************************************************)
\* the rules of the validator that the arguments <<w, h, n>> violate
violated_rules(a) ==
    {r \in {"width", "height", "count", "fit"} :
        \/ r = "width" /\ (a[1] < 5 \/ a[1] > 100)
        \/ r = "height" /\ (a[2] < 5 \/ a[2] > 100)
        \/ r = "count" /\ (a[3] < 1 \/ a[3] > 1000)
        \/ r = "fit" /\ a[3] > a[1] * a[2]}

reason_of(r) ==
    CASE r = "width" -> "Width tem que ser entre 5 and 100"
      [] r = "height" -> "Height tem que ser entre 5 and 100"
      [] r = "count" -> "veiculo tem que ser entre 1 and 1000"
      [] r = "fit" -> "muitos veiculos para o grid"

\* the reasons list holds one reason for each violated rule and nothing else
one_reason_per_rule(reasons, a) ==
    /\ Len(reasons) = Cardinality(violated_rules(a))
    /\ {reasons[k] : k \in 1..Len(reasons)} =
           {reason_of(r) : r \in violated_rules(a)}

\* C7 as stated: the validator returns false exactly when a rule is violated
\* and returns, with the boolean, the list of reasons, one per violated rule.
C7_ReturnsReasons ==
    v_ret # <<>> =>
        /\ v_ret[1] = (violated_rules(v_args) = {})
        /\ Len(v_ret) = 2
        /\ one_reason_per_rule(v_ret[2], v_args)

\* C7 amended: the validator returns only the boolean, false exactly when a
\* rule is violated; the reasons, one per violated rule, go to one logged
\* warning and nothing is logged when no rule is violated.
C7_LogsReasons ==
    v_ret # <<>> =>
        /\ v_ret = <<violated_rules(v_args) = {}>>
        /\ IF violated_rules(v_args) = {}
           THEN v_log = <<>>
           ELSE /\ Len(v_log) = 1
                /\ v_log[1].level = "warning"
                /\ one_reason_per_rule(v_log[1].reasons, v_args)

\* C7 witness: a call that violates all four rules has returned
C7_Witness ==
    /\ v_ret = <<FALSE>>
    /\ Cardinality(violated_rules(v_args)) = 4
    /\ Len(v_log) = 1
    /\ Len(v_log[1].reasons) = 4

(***************************************************************************)
(* Properties of the codec (SpecCodec)                                     *)
(***************************************************************************)
\* q is p rounded to 3 decimals: a multiple of 1/1000 within 0.0005 of p
rounded_from(q, p) ==
    /\ q[2] = 1000
    /\ 2 * Abs(q[1] * p[2] - 1000 * p[1]) <= p[2]

\* C8: decompress(compress(run)) has the length and order of run and gives
\* back each snapshot's step, timestamp and ordered vehicle list with every
\* id, x, y and speed; the congestion is the original rounded to 3 decimals.
C8_RoundTrip ==
    c_out # <<>> =>
        LET run == c_in[1]
            out == c_out[1]
        IN /\ Len(out) = Len(run)
           /\ \A i \in 1..Len(run) :
                /\ out[i].step = run[i].step
                /\ out[i].timestamp = run[i].timestamp
                /\ out[i].veiculos = run[i].veiculos
                /\ rounded_from(out[i].congestionamento,
                                run[i].congestionamento)

\* C8 witness: a run of two snapshots has gone through both calls, its first
\* snapshot holding two vehicles and a congestion that rounding changes
C8_Witness ==
    /\ c_out # <<>>
    /\ Len(c_in[1]) = 2
    /\ Len(c_out[1]) = 2
    /\ Len(c_in[1][1].veiculos) = 2
    /\ c_in[1][1].congestionamento = <<1, 3>>
    /\ c_out[1][1].congestionamento = <<333, 1000>>
    /\ c_in[1][1].step # c_in[1][2].step

(***************************************************************************)
(* Properties of the runs a model generates (SpecRun)                      *)
(***************************************************************************)
\* C9: for a run generated by the model, the first snapshot of
\* decompress(compress(run)) carries the run's metadata {width, height,
\* veiculo_count} and every later snapshot carries the empty metadata.
C9_MetadataOnFirst ==
    (c_out # <<>> /\ c_in = <<results>> /\ Len(results) >= 1) =>
        /\ Len(c_out[1]) = Len(results)
        /\ c_out[1][1].metadata = results[1].metadata
        /\ c_out[1][1].metadata =
              [width |-> width, height |-> height,
               veiculo_count |-> n_veiculos]
        /\ \A i \in 2..Len(c_out[1]) : c_out[1][i].metadata = EmptyDict

\* the latest file of the directory is a save of the run rs
latest_is_save_of(rs) ==
    /\ DOMAIN files # {}
    /\ \A f \in latest_files(files) :
           files[f].content = json_dump(compress_simulation_data(rs))

\* C10: a load_latest() that follows the save of an N-step run of the model
\* returns the decompressed run: N snapshots with the full field names (every
\* vehicle has `speed`), the steps 0, 1, ..., N-1 and vehicle lists of the
\* lengths of the original.
C10_LoadReturnsRun ==
    [][(loaded' # loaded /\ latest_is_save_of(results) /\ Len(results) >= 1) =>
          /\ ~ loaded'[1].none
          /\ LET run == loaded'[1].value
             IN /\ Len(run) = Len(results)
                /\ \A i \in 1..Len(run) :
                     /\ run[i].step = i - 1
                     /\ Len(run[i].veiculos) = Len(results[i].veiculos)
                     /\ \A k \in 1..Len(run[i].veiculos) :
                          "speed" \in DOMAIN run[i].veiculos[k]]_vars

(***************************************************************************)
(* Properties of Carro.move (SpecCarro)                                    *)
(***************************************************************************)
\* the model as move sees it
model_now == [grid |-> grid, agents |-> agents]

\* the cells move may draw for agent a
passos_possiveis(a) == get_neighborhood(grid, agents[a].posicao)

\* C19: in every state of a constructed model and for every vehicle, every
\* cell move() may draw and every speed it may draw: if the cell is occupied
\* move() changes nothing (position, speed and the whole grid stay); if the
\* cell is empty the vehicle ends in that cell, the cell it was in no longer
\* holds it, and its new speed is in {1,2,3,4}.
C19_BlockedMoveIsNoOp ==
    pc = "ready" =>
      \A a \in Ids : \A c \in passos_possiveis(a) : \A s \in Speeds :
        LET after == move(model_now, a, c, s)
        IN IF grid[c] # {}
           THEN after = model_now
           ELSE /\ after.agents[a].pos = c
                /\ after.agents[a].posicao = c
                /\ cells_of(after.grid, a) = {c}
                /\ a \notin after.grid[agents[a].pos]
                /\ after.agents[a].speed \in {1, 2, 3, 4}
                /\ \A b \in Ids \ {a} : after.agents[b] = agents[b]

\* a model in which one vehicle has an occupied cell to draw and a vehicle
\* has an empty cell to draw, after a tick
C19_Witness ==
    /\ pc = "ready"
    /\ step_count >= 1
    /\ \E a \in Ids : \E c \in passos_possiveis(a) : grid[c] # {}
    /\ \E a \in Ids : \E c \in passos_possiveis(a) : grid[c] = {}

\* the cells that hold more than one vehicle
shared_cells(g) == {c \in DOMAIN g : Cardinality(g[c]) > 1}

\* C20: across every step() call the number of cells that hold more than one
\* vehicle does not increase, and a cell that holds more than one vehicle
\* after the call held all of them before it: a shared cell goes back to the
\* placement of the constructor.  (Every step of SpecCarro from a
\* constructed model is a step() call.)
C20_MovesCreateNoCollision ==
    [][pc = "ready" =>
         /\ Cardinality(shared_cells(grid')) <= Cardinality(shared_cells(grid))
         /\ \A c \in shared_cells(grid') : grid'[c] \subseteq grid[c]]_vars

\* two vehicles that have both moved
C20_Witness ==
    /\ pc = "ready"
    /\ step_count >= 1
    /\ n_veiculos = 2
    /\ \A a \in Ids : agents[a].speed > 0
    /\ shared_cells(grid) = {}

(***************************************************************************)
(* Properties of a live run (SpecLive)                                     *)
(***************************************************************************)
\* the files of the directory whose write completed
complete_files(dir) == {f \in DOMAIN dir : is_json(dir[f].content)}

\* a save attempt of the run has just failed
save_failed_now ==
    /\ Len(saves') = Len(saves) + 1
    /\ ~ saves'[Len(saves')].ok

expected_saves(n) ==
    [i \in 1..((n \div SavePeriod) + 1) |->
        IF i <= n \div SavePeriod THEN [at |-> "loop", tick |-> SavePeriod * i]
                                  ELSE [at |-> "end", tick |-> n]]

\* the saves a run has made when it is at tick k
saves_due(k) ==
    (k \div SavePeriod)
    - (IF run_pc = "save" THEN 1 ELSE 0)
    + (IF run_pc = "done" THEN 1 ELSE 0)

is_rounded3(q) == q[1] * round3(q)[2] = round3(q)[1] * q[2]

\* a run has the compressed form
is_compressed(run) ==
    \A i \in 1..Len(run) :
      /\ \A k \in 1..Len(run[i].veiculos) :
            /\ "s" \in DOMAIN run[i].veiculos[k]
            /\ "speed" \notin DOMAIN run[i].veiculos[k]
      /\ is_rounded3(run[i].congestionamento)
      /\ ("metadata" \in DOMAIN run[i]) <=> (i = 1)

latest_is_malformed ==
    /\ DOMAIN files # {}
    /\ \A f \in latest_files(files) : ~ is_json(files[f].content)

\* what the caller of load_latest gets for a directory without files
no_data == [none |-> TRUE, raised |-> <<>>]

\* what the caller of load_latest gets: the value returned or the exception
outcome(l) == [none |-> l.none, raised |-> l.raised]

\* C14: a load_latest() that finds the latest result file malformed lets an
\* error out to its caller, and what the caller gets differs from the "no
\* data" result of an empty directory.
C14_MalformedIsSurfaced ==
    [][(loaded' # loaded /\ latest_is_malformed) =>
          /\ loaded'[1].raised # <<>>
          /\ outcome(loaded'[1]) # no_data]_vars

(***************************************************************************)
(* Properties of cleanup_old_files (SpecCleanup)                           *)
(***************************************************************************)
\* the last call of cleanup
last_cleanup == cleaned[Len(cleaned)]

distinct_mtimes(dir) ==
    \A f, g \in DOMAIN dir : f # g => dir[f].mtime # dir[g].mtime

\* the n most recently modified files of dir
most_recent(dir, n) ==
    {f \in DOMAIN dir :
        Cardinality({g \in DOMAIN dir : dir[g].mtime > dir[f].mtime}) < n}

\* f is older than days days at the clock reading t
older_than(dir, f, t, days) == t - dir[f].mtime > days * DayTicks

\* C11: after a cleanup(max_files, max_age_days) of a directory whose files
\* have distinct modification times, in which no deletion failed, at most
\* max_files files remain, each of them is among the max_files most recently
\* modified files of the directory and is as it was, and none is older than
\* max_age_days at the time of the call.
C11_RetentionLimits ==
    (/\ cleaned # <<>>
     /\ distinct_mtimes(last_cleanup.before)
     /\ last_cleanup.failed = <<>>) =>
        /\ Cardinality(DOMAIN files) <= last_cleanup.max_files
        /\ DOMAIN files \subseteq
              most_recent(last_cleanup.before, last_cleanup.max_files)
        /\ \A f \in DOMAIN files :
              /\ files[f] = last_cleanup.before[f]
              /\ ~ older_than(files, f, last_cleanup.t,
                              last_cleanup.max_age_days)

\* a cleanup of three files of distinct times with room for two and an age
\* limit of a day, after which one is left: both rules have deleted
C11_Witness ==
    /\ cleaned # <<>>
    /\ distinct_mtimes(last_cleanup.before)
    /\ last_cleanup.failed = <<>>
    /\ Cardinality(DOMAIN last_cleanup.before) = 3
    /\ last_cleanup.max_files = 2
    /\ last_cleanup.max_age_days = 1
    /\ Cardinality(DOMAIN files) = 1

\* the files the two rules of a call select for deletion: those after the
\* first max_files of the sorted list, and those older than the limit
selected(c) ==
    {c.json_files[i] : i \in (c.max_files + 1)..Len(c.json_files)}
    \cup {f \in DOMAIN c.before :
             older_than(c.before, f, c.t, c.max_age_days)}

\* C12: after a cleanup in which the deletion of one file failed, every
\* other file that the count rule or the age rule selected is deleted, and
\* the call has returned without raising.
C12_FailureDoesNotAbort ==
    (cleaned # <<>> /\ last_cleanup.failed # <<>>) =>
        /\ \A f \in selected(last_cleanup) \ last_cleanup.fails :
              f \notin DOMAIN files
        /\ last_cleanup.raised = <<>>

\* a second cleanup follows a first one with the same limits
second_cleanup ==
    /\ Len(cleaned) >= 1
    /\ Len(cleaned') = Len(cleaned) + 1
    /\ cleaned'[Len(cleaned')].max_files = last_cleanup.max_files
    /\ cleaned'[Len(cleaned')].max_age_days = last_cleanup.max_age_days

none_comes_of_age ==
    \A f \in DOMAIN files :
        older_than(files, f, cleaned'[Len(cleaned')].t,
                   last_cleanup.max_age_days)
        => older_than(files, f, last_cleanup.t, last_cleanup.max_age_days)

=============================================================================
